---- MODULE Spec2Model ----
(***************************************************************************)
(* Obsidian Settings Manager: the directive-based file selection of        *)
(* src/glob_fun.py (process) and src/osm.py (process_action_list_in), and  *)
(* the part of osm.py's main that loads the directives and runs a command  *)
(* over the vaults.                                                        *)
(*                                                                         *)
(* Strings are TLA+ strings, read character by character with SubSeq.      *)
(* A path (pathlib.PurePosixPath) is the sequence of its parts.  A         *)
(* filesystem is a function from absolute paths to "file" or "dir".        *)
(* Patterns are relative and hold no ".." part and no character class.     *)
(***************************************************************************)
EXTENDS Integers, Sequences, FiniteSets, TLC

(***************************************************************************)
(* Strings                                                                 *)
(***************************************************************************)
Char(s, i) == SubSeq(s, i, i)

StrTail(s) == SubSeq(s, 2, Len(s))

\* str.startswith
StartsWith(s, prefix) ==
    /\ Len(s) >= Len(prefix)
    /\ SubSeq(s, 1, Len(prefix)) = prefix

\* "x" in s, for a one-character x
HasChar(s, c) == \E i \in 1..Len(s) : Char(s, i) = c

\* sub in s
HasSubstring(s, sub) ==
    \E i \in 1..(Len(s) - Len(sub) + 1) : SubSeq(s, i, i + Len(sub) - 1) = sub

\* The characters the model's names use, in code point order.
CodePoints == " *-.:?ABCDEFGHIJKLMNOPQRSTUVWXYZ_abcdefghijklmnopqrstuvwxyz"

ord(c) == CHOOSE i \in 1..Len(CodePoints) : Char(CodePoints, i) = c

\* str.__lt__: by code points, a proper prefix first
RECURSIVE StrLess(_, _)
StrLess(a, b) ==
    IF b = "" THEN FALSE
    ELSE IF a = "" THEN TRUE
    ELSE IF Char(a, 1) = Char(b, 1) THEN StrLess(StrTail(a), StrTail(b))
    ELSE ord(Char(a, 1)) < ord(Char(b, 1))

(***************************************************************************)
(* Paths                                                                   *)
(***************************************************************************)
\* s.split("/")
RECURSIVE SplitSlash(_, _, _)
SplitSlash(s, i, cur) ==
    IF i > Len(s) THEN <<cur>>
    ELSE IF Char(s, i) = "/" THEN <<cur>> \o SplitSlash(s, i + 1, "")
    ELSE SplitSlash(s, i + 1, cur \o Char(s, i))

IsRealPart(part) == part # "" /\ part # "."

\* Path(item).parts: empty and "." components are dropped
PathParts(item) == SelectSeq(SplitSlash(item, 1, ""), IsRealPart)

IsPrefix(p, q) == Len(p) <= Len(q) /\ SubSeq(q, 1, Len(p)) = p

IsStrictPrefix(p, q) == Len(p) < Len(q) /\ SubSeq(q, 1, Len(p)) = p

\* PurePath.relative_to: the caller only passes paths below other
relative_to(path, other) == SubSeq(path, Len(other) + 1, Len(path))

Parent(p) == SubSeq(p, 1, Len(p) - 1)

Name(p) == p[Len(p)]

\* PurePath.__lt__ on POSIX: the parts compared as a tuple of strings
RECURSIVE PathLess(_, _)
PathLess(p, q) ==
    IF q = <<>> THEN FALSE
    ELSE IF p = <<>> THEN TRUE
    ELSE IF Head(p) = Head(q) THEN PathLess(Tail(p), Tail(q))
    ELSE StrLess(Head(p), Head(q))

\* sorted(paths)
RECURSIVE sorted(_)
sorted(S) ==
    IF S = {} THEN <<>>
    ELSE LET least == CHOOSE p \in S : \A q \in S \ {p} : PathLess(p, q)
         IN  <<least>> \o sorted(S \ {least})

(***************************************************************************)
(* Filesystem                                                              *)
(***************************************************************************)
exists(tree, p) == p \in DOMAIN tree

is_file(tree, p) == p \in DOMAIN tree /\ tree[p] = "file"

is_dir(tree, p) == p \in DOMAIN tree /\ tree[p] = "dir"

\* os.scandir(p): the entries directly inside p
Children(tree, p) == {c \in DOMAIN tree : Len(c) = Len(p) + 1 /\ IsPrefix(p, c)}

\* every entry at any depth below p
Descendants(tree, p) == {c \in DOMAIN tree : IsStrictPrefix(p, c)}

(***************************************************************************)
(* pathlib globbing (Python 3.9 to 3.12)                                   *)
(***************************************************************************)
\* fnmatch.translate + fullmatch, for "*", "?" and literal characters
RECURSIVE fnmatch(_, _)
fnmatch(name, pat) ==
    IF pat = "" THEN name = ""
    ELSE IF Char(pat, 1) = "*"
         THEN \/ fnmatch(name, StrTail(pat))
              \/ name # "" /\ fnmatch(StrTail(name), pat)
    ELSE IF Char(pat, 1) = "?"
         THEN name # "" /\ fnmatch(StrTail(name), StrTail(pat))
    ELSE /\ name # ""
         /\ Char(name, 1) = Char(pat, 1)
         /\ fnmatch(StrTail(name), StrTail(pat))

\* pathlib._is_wildcard_pattern
is_wildcard_pattern(part) == HasChar(part, "*") \/ HasChar(part, "?")

\* pathlib._make_selector raises ValueError for a part such as "core-plugins**"
InvalidPattern(item) ==
    \E i \in 1..Len(PathParts(item)) :
        PathParts(item)[i] # "**" /\ HasSubstring(PathParts(item)[i], "**")

\* pathlib's selector chain: base is the directory relative paths are read
\* from (the working directory), parent the path selected so far.
RECURSIVE select_from(_, _, _, _)
select_from(tree, base, parent, parts) ==
    IF parts = <<>> THEN {parent}
    ELSE LET part == Head(parts)
             rest == Tail(parts)
             dironly == rest # <<>>
             here == base \o parent
         IN  IF part = "**"
             THEN UNION {select_from(tree, base, relative_to(d, base), rest) :
                           d \in {x \in {here} \cup Descendants(tree, here) : is_dir(tree, x)}}
             ELSE IF is_wildcard_pattern(part)
             THEN UNION {select_from(tree, base, relative_to(c, base), rest) :
                           c \in {x \in Children(tree, here) :
                                    /\ fnmatch(Name(x), part)
                                    /\ dironly => is_dir(tree, x)}}
             ELSE IF (IF dironly THEN is_dir(tree, here \o <<part>>)
                                 ELSE exists(tree, here \o <<part>>))
                  THEN select_from(tree, base, parent \o <<part>>, rest)
                  ELSE {}

\* Path.glob(pattern) on the path `start`, read from `base`
glob(tree, base, start, pattern) ==
    IF is_dir(tree, base \o start)
    THEN select_from(tree, base, start, PathParts(pattern))
    ELSE {}

(***************************************************************************)
(* glob_fun.py: item expansion                                             *)
(***************************************************************************)
\* the is_file filter left out
only_files_from_AllEntries(tree, cwd, item_list) == item_list

\* only_files_from: the items are relative paths, read from the working
\* directory cwd (os.chdir at line 29)
only_files_from(tree, cwd, item_list) == {item \in item_list : is_file(tree, cwd \o item)}

\* get_items_from raises when Path.glob rejects the pattern
get_items_from_raises(tree, cwd, item) ==
    /\ ~is_file(tree, cwd \o PathParts(item))
    /\ ~is_dir(tree, cwd \o PathParts(item))
    /\ (PathParts(item) = <<>> \/ InvalidPattern(item))

\* a wildcard pattern globbed before the file and directory checks
get_items_from_GlobFirst(tree, cwd, item) ==
    LET item_path == PathParts(item)
    IN  IF is_wildcard_pattern(item) /\ ~InvalidPattern(item)
        THEN only_files_from(tree, cwd, glob(tree, cwd, <<>>, item))
        ELSE IF is_file(tree, cwd \o item_path) THEN {item_path}
        ELSE IF is_dir(tree, cwd \o item_path)
             THEN only_files_from(tree, cwd, glob(tree, cwd, item_path, "./**/*"))
        ELSE only_files_from(tree, cwd, glob(tree, cwd, <<>>, item))

\* get_items_from: the list it returns, as the set of its members (their
\* order is the directory iteration order, which no caller reads)
get_items_from(tree, cwd, item) ==
    LET item_path == PathParts(item)
    IN  IF is_file(tree, cwd \o item_path) THEN {item_path}
        ELSE IF is_dir(tree, cwd \o item_path)
             THEN only_files_from(tree, cwd, glob(tree, cwd, item_path, "./**/*"))
        ELSE only_files_from(tree, cwd, glob(tree, cwd, <<>>, item))

(***************************************************************************)
(* osm.py: item expansion                                                  *)
(***************************************************************************)
\* the is_file filter left out
only_relative_files_from_AllEntries(tree, item_list, relative_to_dir) ==
    {relative_to(item, relative_to_dir) : item \in item_list}

\* only_relative_files_from: the items are absolute paths
only_relative_files_from(tree, item_list, relative_to_dir) ==
    {relative_to(item, relative_to_dir) : item \in {x \in item_list : is_file(tree, x)}}

\* Path.rglob(pattern) is glob("**/" + pattern)
rglob(tree, start, pattern) == glob(tree, <<>>, start, "**/" \o pattern)

get_matching_files_raises(tree, source_dir, item) ==
    /\ ~is_file(tree, source_dir \o PathParts(item))
    /\ ~is_dir(tree, source_dir \o PathParts(item))
    /\ (PathParts(item) = <<>> \/ InvalidPattern(item))

\* the files of a directory given relative to the directory, not to source_dir
get_matching_files_RelativeToItem(tree, source_dir, item) ==
    LET item_path == source_dir \o PathParts(item)
    IN  IF is_file(tree, item_path) THEN {PathParts(item)}
        ELSE IF is_dir(tree, item_path)
             THEN only_relative_files_from(tree, rglob(tree, item_path, "*"), item_path)
        ELSE only_relative_files_from(tree, glob(tree, <<>>, source_dir, item), source_dir)

\* the glob made recursive
get_matching_files_RecursiveGlob(tree, source_dir, item) ==
    LET item_path == source_dir \o PathParts(item)
    IN  IF is_file(tree, item_path) THEN {PathParts(item)}
        ELSE IF is_dir(tree, item_path)
             THEN only_relative_files_from(tree, rglob(tree, item_path, "*"), source_dir)
        ELSE only_relative_files_from(tree, rglob(tree, source_dir, item), source_dir)

get_matching_files(tree, source_dir, item) ==
    LET item_path == source_dir \o PathParts(item)
    IN  IF is_file(tree, item_path) THEN {PathParts(item)}
        ELSE IF is_dir(tree, item_path)
             THEN only_relative_files_from(tree, rglob(tree, item_path, "*"), source_dir)
        ELSE only_relative_files_from(tree, glob(tree, <<>>, source_dir, item), source_dir)

(***************************************************************************)
(* Set accumulation                                                        *)
(***************************************************************************)
\* a discard that removes nothing
SetOperation_DiscardKeeps(operation, collection, part) ==
    IF operation = "add" THEN collection \cup {part}
    ELSE collection

\* set.add / set.discard, the values of FILE_ACTIONS and the bound methods
\* collection.add / collection.discard of glob_fun.py
SetOperation(operation, collection, part) ==
    IF operation = "add" THEN collection \cup {part}
    ELSE collection \ {part}

\* for part in items: operation(part)
RECURSIVE ForEachPart(_, _, _)
ForEachPart(operation, collection, items) ==
    IF items = {} THEN collection
    ELSE LET part == CHOOSE x \in items : TRUE
         IN  ForEachPart(operation, SetOperation(operation, collection, part), items \ {part})

(***************************************************************************)
(* Inputs: filesystems                                                     *)
(***************************************************************************)
\* Path.home()
Home == <<"home">>

\* the root the directives are resolved against: a vault's settings directory
SrcDir == Home \o <<"vault", ".obsidian">>

Prefixes(p) == {SubSeq(p, 1, k) : k \in 0..(Len(p) - 1)}

\* the filesystem holding the directory root and, below it, the named files
\* with the directories that lead to them
MkTree(root, files) ==
    LET paths == {root \o PathParts(f) : f \in files}
        dirs  == (Prefixes(root) \cup {root} \cup UNION {Prefixes(q) : q \in paths}) \ paths
    IN  [q \in paths \cup dirs |-> IF q \in paths THEN "file" ELSE "dir"]

\* the root of the end-to-end scenario
ScenarioFiles ==
    {"a.json", "b.json", "workspace.json", "snippets/x.md",
     "plugins/buttons/styles.css", "plugins/buttons/main.js",
     "plugins/tag-wrangler/index.js"}

\* nested files, and a directory whose name matches *.json
NestedFiles ==
    {"a.json", "sub/c.json", "sub/d.md", "sub/deep/e.json", "dir.json/k.md",
     "plugins/buttons/main.js"}

\* a file and a directory whose names are themselves glob expressions
LiteralFiles ==
    {"a.json", "b.json", "*.json", "p*/q.md", "plugins/buttons/main.js", "sub/c.json"}

FileSets == {ScenarioFiles, NestedFiles, LiteralFiles, {}}

\* a filesystem in which the root does not exist
NoRootTree == MkTree(Parent(SrcDir), {})

FileSystems == {MkTree(SrcDir, files) : files \in FileSets} \cup {NoRootTree}

(***************************************************************************)
(* Inputs: directives                                                      *)
(***************************************************************************)
\* the longest directive list drawn freely from the core alphabets below
MaxDirectives == 2

Patterns ==
    {".", "", "*.json", "sub/*.json", "**/*.json", "plugins", "a.json", "p*", "core-plugins**"}

SeqsUpTo(S, n) == UNION {[1..k -> S] : k \in 0..n}

\* glob_fun.py lines 17-26, after DIRECTIVES.splitlines()
DIRECTIVES ==
    <<"", "Include: .", "Exclude: *.json", "Exclude: workspace*", "Include: snippets",
      "Exclude: plugins", "Include: plugins/buttons",
      "Exclude: plugins/buttons/styles.css", "Include: plugins/tag-wrangler">>

ScenarioLines ==
    <<"Include: .", "Exclude: *.json", "Include: snippets", "Exclude: plugins",
      "Include: plugins/buttons", "Exclude: plugins/buttons/styles.css",
      "Include: plugins/tag-wrangler">>

\* known, unknown and blank lines mixed
MixedLines ==
    <<"Include: a.json", "Rename: foo", "", "include: b.json", "Exclude: a.json",
      "Include: b.json">>

UnknownLines == {"Rename: foo", "include: a.json", " Include: a.json"}

Lines ==
    {"Include: " \o p : p \in Patterns} \cup {"Exclude: " \o p : p \in Patterns}
        \cup UnknownLines \cup {""}

\* a glob, a directory and a file, which longer lists are drawn from
CorePatterns == {"*.json", "plugins", "a.json"}

CoreLines ==
    {"Include: " \o p : p \in CorePatterns} \cup {"Exclude: " \o p : p \in CorePatterns}
        \cup {"Rename: foo", ""}

\* every list of at most two lines, the lists of core lines up to the bound,
\* and the lists written out above
LineLists ==
    {<<>>} \cup {<<a>> : a \in Lines} \cup {<<a, b>> : a \in Lines, b \in Lines}
        \cup SeqsUpTo(CoreLines, MaxDirectives)
        \cup {DIRECTIVES, ScenarioLines, MixedLines}

\* A JSON value of the OSM configuration: a string, a number, or an object
\* given as the sequence of its (key, value) pairs in file order.
JsonStr(s) == [type |-> "str", val |-> s, items |-> <<>>]

JsonInt(n) == [type |-> "int", val |-> n, items |-> <<>>]

JsonDict(pairs) == [type |-> "dict", val |-> "", items |-> pairs]

Entry(action, item) == JsonDict(<<<<action, JsonStr(item)>>>>)

\* osm.py lines 95-109: "files_to_copy" of OSM_DEFAULT_CONFIG
DefaultFilesToCopy ==
    <<Entry("copy", "README.md"), Entry("copy", "config"), Entry("copy", "*.json"),
      Entry("skip", "app.json"), Entry("skip", "core-plugins**"),
      Entry("skip", "workspace*"), Entry("skip", "command-palette.json"),
      Entry("copy", "plugins"), Entry("skip", "plugins/auto-note-mover"),
      Entry("copy", "snippets"), Entry("copy", "themes")>>

ScenarioEntries ==
    <<Entry("copy", "."), Entry("skip", "*.json"), Entry("copy", "snippets"),
      Entry("skip", "plugins"), Entry("copy", "plugins/buttons"),
      Entry("skip", "plugins/buttons/styles.css"), Entry("copy", "plugins/tag-wrangler")>>

BadEntries ==
    {Entry("rename", "foo"), Entry("Copy", "a.json"), JsonDict(<<>>),
     JsonDict(<<<<"copy", JsonStr("a.json")>>, <<"skip", JsonStr("b.json")>>>>),
     JsonDict(<<<<"copy", JsonInt("5")>>>>), JsonStr("a.json")}

Entries ==
    {Entry("copy", p) : p \in Patterns} \cup {Entry("skip", p) : p \in Patterns}
        \cup BadEntries

CoreEntries ==
    {Entry("copy", p) : p \in CorePatterns} \cup {Entry("skip", p) : p \in CorePatterns}
        \cup {Entry("rename", "foo"), JsonDict(<<>>)}

\* every list of at most two entries, the lists of core entries up to the
\* bound, and the lists written out above
EntryLists ==
    {<<>>} \cup {<<a>> : a \in Entries} \cup {<<a, b>> : a \in Entries, b \in Entries}
        \cup SeqsUpTo(CoreEntries, MaxDirectives)
        \cup {DefaultFilesToCopy, ScenarioEntries}

\* osm.py lines 110-113: "backup" of OSM_DEFAULT_CONFIG
DefaultBackup ==
    [archive_format_priority_list |-> <<"zip", "gztar", "bztar", "xztar", "tar">>,
     location |-> ".osm-obsidian-settings-backup"]

\* the command line of a run that is not osm.py's
NoArgs == [command |-> "", vault |-> "", dry_run |-> FALSE]

(***************************************************************************)
(* State                                                                   *)
(***************************************************************************)
VARIABLES
    prog,             \* which program runs: "glob_fun" or "osm"
    fs,               \* the filesystem
    directives,       \* glob_fun.py: the lines given to process()
    OSM_CONFIG,       \* osm.py: the loaded OSM configuration
    ACTIONS_TO_TAKE,  \* osm.py line 119: the (operation, item) pairs
    pc,               \* where the program is
    k,                \* the position of the directive loop
    result,           \* glob_fun.py line 85: the set process() builds
    files,            \* osm.py line 245: the set process_action_list_in builds
    expansions,       \* every expansion made so far: the item, the operation it
                      \* was made for and the files it returned
    stdout,           \* the lines printed so far
    status,           \* the exit status, "running" until the program ends
    args,             \* osm.py: the parsed command line
    ITEMS_TO_COPY,    \* osm.py line 120: the cached list of selected files
    vault_no,         \* osm.py: the position of call_for_each_vault
    ops,              \* osm.py: the operations on vaults called so far
    calls,            \* osm.py: every call of get_items_to_copy so far
    changes           \* how often another process changed the source vault

vars == <<prog, fs, directives, OSM_CONFIG, ACTIONS_TO_TAKE, pc, k, result, files,
          expansions, stdout, status, args, ITEMS_TO_COPY, vault_no, ops, calls, changes>>

\* the state only main() of osm.py uses
mainVars == <<args, ITEMS_TO_COPY, vault_no, ops, calls, changes>>

\* the state only the directive loops use
loopVars == <<directives, k, result, files, expansions>>

(***************************************************************************)
(* glob_fun.py: process                                                    *)
(***************************************************************************)
\* str.removeprefix
removeprefix(s, prefix) ==
    IF StartsWith(s, prefix) THEN SubSeq(s, Len(prefix) + 1, Len(s)) ELSE s

\* the verb accepted in lower case too
DirectiveKind_AnyCase(directive) ==
    IF \/ removeprefix(directive, "Include: ") # directive
       \/ removeprefix(directive, "include: ") # directive
    THEN "include"
    ELSE IF \/ removeprefix(directive, "Exclude: ") # directive
            \/ removeprefix(directive, "exclude: ") # directive
    THEN "exclude"
    ELSE IF directive # "" THEN "unknown"
    ELSE "blank"

\* the test for a blank line left out
DirectiveKind_BlankUnknown(directive) ==
    IF removeprefix(directive, "Include: ") # directive THEN "include"
    ELSE IF removeprefix(directive, "Exclude: ") # directive THEN "exclude"
    ELSE "unknown"

\* which branch of process_one_directive a line takes
DirectiveKind(directive) ==
    IF removeprefix(directive, "Include: ") # directive THEN "include"
    ELSE IF removeprefix(directive, "Exclude: ") # directive THEN "exclude"
    ELSE IF directive # "" THEN "unknown"
    ELSE "blank"

\* the item process_one_directive hands to process_item
DirectiveItem(directive) ==
    IF DirectiveKind(directive) = "include" THEN removeprefix(directive, "Include: ")
    ELSE removeprefix(directive, "Exclude: ")

\* process_item with TRACE unset: the collection after operation(part) for
\* every part of the item
process_item(tree, cwd, item, operation, collection) ==
    ForEachPart(operation, collection, get_items_from(tree, cwd, item))

\* process_one_directive: the collection it leaves
process_one_directive(tree, cwd, directive, collection) ==
    IF DirectiveKind(directive) = "include"
    THEN process_item(tree, cwd, DirectiveItem(directive), "add", collection)
    ELSE IF DirectiveKind(directive) = "exclude"
    THEN process_item(tree, cwd, DirectiveItem(directive), "discard", collection)
    ELSE collection

\* process_one_directive: what it prints (line 81)
UnknownDirectiveMsg(directive) == "Unknown directive '" \o directive \o "', ignoring."

process_one_directive_prints(directive) ==
    IF DirectiveKind(directive) = "unknown" THEN <<UnknownDirectiveMsg(directive)>> ELSE <<>>

\* the call of get_items_from process_one_directive makes, if any (line 61)
process_one_directive_expands(tree, cwd, directive) ==
    IF DirectiveKind(directive) \in {"include", "exclude"}
    THEN <<[item |-> DirectiveItem(directive),
            operation |-> IF DirectiveKind(directive) = "include" THEN "add" ELSE "discard",
            items |-> get_items_from(tree, cwd, DirectiveItem(directive))]>>
    ELSE <<>>

process_one_directive_raises(tree, cwd, directive) ==
    /\ DirectiveKind(directive) \in {"include", "exclude"}
    /\ get_items_from_raises(tree, cwd, DirectiveItem(directive))

\* os.chdir(os.getenv('IN_DIR', '.')) at import (line 29): FileNotFoundError
\* when the directory does not exist
GlobFunChdir ==
    /\ prog = "glob_fun"
    /\ pc = "chdir"
    /\ IF is_dir(fs, SrcDir)
       THEN pc' = "process" /\ UNCHANGED status
       ELSE pc' = "raised" /\ status' = "1"
    /\ UNCHANGED <<prog, fs, directives, OSM_CONFIG, ACTIONS_TO_TAKE, k, result, files,
                   expansions, stdout, mainVars>>

\* one iteration of the loop of process (lines 86-87)
GlobFunDirective ==
    /\ prog = "glob_fun"
    /\ pc = "process"
    /\ k <= Len(directives)
    /\ IF process_one_directive_raises(fs, SrcDir, directives[k])
       THEN /\ pc' = "raised"
            /\ status' = "1"
            /\ UNCHANGED <<k, result, expansions, stdout>>
       ELSE /\ result' = process_one_directive(fs, SrcDir, directives[k], result)
            /\ expansions' = expansions \o process_one_directive_expands(fs, SrcDir, directives[k])
            /\ stdout' = stdout \o process_one_directive_prints(directives[k])
            /\ k' = k + 1
            /\ UNCHANGED <<pc, status>>
    /\ UNCHANGED <<prog, fs, directives, OSM_CONFIG, ACTIONS_TO_TAKE, files, mainVars>>

\* process returns result (line 88)
GlobFunReturn ==
    /\ prog = "glob_fun"
    /\ pc = "process"
    /\ k > Len(directives)
    /\ pc' = "done"
    /\ status' = "0"
    /\ UNCHANGED <<prog, fs, directives, OSM_CONFIG, ACTIONS_TO_TAKE, k, result, files,
                   expansions, stdout, mainVars>>

(***************************************************************************)
(* osm.py: get_processing_directives                                       *)
(***************************************************************************)
\* osm.py lines 139-142
FILE_ACTIONS == [copy |-> "add", skip |-> "discard"]

BAD_ACTION_MSG == "is an unknown/invalid action in OSM Configuration in the \"files_to_copy\" list"

BAD_ITEM_MSG == "OSM Configuration item (value) in \"files_to_copy\" list:"

\* repr() of a JSON value
ReprScalar(v) == IF v.type = "str" THEN "'" \o v.val \o "'" ELSE v.val

RECURSIVE ReprPairs(_)
ReprPairs(pairs) ==
    IF pairs = <<>> THEN ""
    ELSE "'" \o Head(pairs)[1] \o "': " \o ReprScalar(Head(pairs)[2])
         \o (IF Len(pairs) > 1 THEN ", " ELSE "") \o ReprPairs(Tail(pairs))

repr(v) == IF v.type = "dict" THEN "{" \o ReprPairs(v.items) \o "}" ELSE ReprScalar(v)

\* must_be_type prints this and exits when the item has another type
MustBeTypeMsg(item, type_name, prefix_msg) ==
    "Error: " \o prefix_msg \o " " \o item.type \o ": " \o repr(item)
        \o " is not a " \o type_name

\* must_get_key prints this and exits when the key is missing
MustGetKeyMsg(key, aux_msg) == "Error, missing key '" \o key \o "' " \o aux_msg

OneKeyMsg(directive) ==
    "Error: OSM Configuration list elements under \"files_to_copy\" must have only one key: "
        \o repr(directive)

\* the error one entry of "files_to_copy" makes get_processing_directives
\* print before exit(-1), "" when the entry is accepted (lines 305-313)
DirectiveError(directive) ==
    IF directive.type # "dict"
    THEN MustBeTypeMsg(directive, "dict", "OSM Configuration value under \"files_to_copy\"")
    ELSE IF Len(directive.items) # 1 THEN OneKeyMsg(directive)
    ELSE IF directive.items[1][1] \notin DOMAIN FILE_ACTIONS
    THEN MustGetKeyMsg(directive.items[1][1], BAD_ACTION_MSG)
    ELSE IF directive.items[1][2].type # "str"
    THEN MustBeTypeMsg(directive.items[1][2], "str", BAD_ITEM_MSG)
    ELSE ""

\* the (operation, item) pair an accepted entry yields (lines 312-313)
DirectivePair(directive) ==
    <<FILE_ACTIONS[directive.items[1][1]], directive.items[1][2].val>>

\* get_processing_directives that passes over the entries it rejects
RECURSIVE get_processing_directives_SkipsRejected(_)
get_processing_directives_SkipsRejected(entries) ==
    IF entries = <<>> THEN [pairs |-> <<>>, error |-> ""]
    ELSE LET later == get_processing_directives_SkipsRejected(Tail(entries))
         IN  IF DirectiveError(Head(entries)) # "" THEN later
             ELSE [pairs |-> <<DirectivePair(Head(entries))>> \o later.pairs,
                   error |-> later.error]

\* get_processing_directives consumed by ACTIONS_TO_TAKE.extend (line 615):
\* the pairs yielded, and the error that ended the run, "" when none did
RECURSIVE get_processing_directives(_)
get_processing_directives(entries) ==
    IF entries = <<>> THEN [pairs |-> <<>>, error |-> ""]
    ELSE IF DirectiveError(Head(entries)) # ""
    THEN [pairs |-> <<>>, error |-> DirectiveError(Head(entries))]
    ELSE LET later == get_processing_directives(Tail(entries))
         IN  [pairs |-> <<DirectivePair(Head(entries))>> \o later.pairs,
              error |-> later.error]

\* the harness of the resolver: load the directives, then resolve SrcDir
LoadDirectives ==
    /\ prog = "osm"
    /\ pc = "config"
    /\ LET got == get_processing_directives(OSM_CONFIG.files_to_copy)
       IN  /\ ACTIONS_TO_TAKE' = ACTIONS_TO_TAKE \o got.pairs
           /\ IF got.error # ""
              THEN /\ stdout' = Append(stdout, got.error)
                   /\ pc' = "exit"
                   /\ status' = "255"
              ELSE /\ pc' = "resolve"
                   /\ UNCHANGED <<stdout, status>>
    /\ UNCHANGED <<prog, fs, directives, OSM_CONFIG, k, result, files, expansions, mainVars>>

(***************************************************************************)
(* osm.py: process_action_list_in                                          *)
(***************************************************************************)
\* the body of the loop over actions_list (lines 248-249)
process_action(tree, source_dir, action, item, collection) ==
    ForEachPart(action, collection, get_matching_files(tree, source_dir, item))

\* one iteration of the loop of process_action_list_in (lines 247-249)
OsmAction ==
    /\ prog = "osm"
    /\ pc = "resolve"
    /\ k <= Len(ACTIONS_TO_TAKE)
    /\ IF get_matching_files_raises(fs, SrcDir, ACTIONS_TO_TAKE[k][2])
       THEN /\ pc' = "raised"
            /\ status' = "1"
            /\ UNCHANGED <<k, files, expansions>>
       ELSE /\ files' = process_action(fs, SrcDir, ACTIONS_TO_TAKE[k][1],
                                       ACTIONS_TO_TAKE[k][2], files)
            /\ expansions' = Append(expansions,
                    [item |-> ACTIONS_TO_TAKE[k][2], operation |-> ACTIONS_TO_TAKE[k][1],
                     items |-> get_matching_files(fs, SrcDir, ACTIONS_TO_TAKE[k][2])])
            /\ k' = k + 1
            /\ UNCHANGED <<pc, status>>
    /\ UNCHANGED <<prog, fs, directives, OSM_CONFIG, ACTIONS_TO_TAKE, result, stdout, mainVars>>

\* process_action_list_in returns files (line 250)
OsmReturn ==
    /\ prog = "osm"
    /\ pc = "resolve"
    /\ k > Len(ACTIONS_TO_TAKE)
    /\ pc' = "done"
    /\ status' = "0"
    /\ UNCHANGED <<prog, fs, directives, OSM_CONFIG, ACTIONS_TO_TAKE, k, result, files,
                   expansions, stdout, mainVars>>

(***************************************************************************)
(* The resolvers on every input                                            *)
(***************************************************************************)
Init ==
    /\ prog \in {"glob_fun", "osm"}
    /\ fs \in FileSystems
    /\ IF prog = "glob_fun"
       THEN /\ directives \in LineLists
            /\ OSM_CONFIG = [files_to_copy |-> <<>>, backup |-> DefaultBackup]
            /\ pc = "chdir"
       ELSE /\ directives = <<>>
            /\ OSM_CONFIG \in [files_to_copy : EntryLists, backup : {DefaultBackup}]
            /\ pc = "config"
    /\ ACTIONS_TO_TAKE = <<>>
    /\ k = 1
    /\ result = {}
    /\ files = {}
    /\ expansions = <<>>
    /\ stdout = <<>>
    /\ status = "running"
    /\ args = NoArgs
    /\ ITEMS_TO_COPY = <<>>
    /\ vault_no = 1
    /\ ops = <<>>
    /\ calls = <<>>
    /\ changes = 0

Next ==
    \/ GlobFunChdir
    \/ GlobFunDirective
    \/ GlobFunReturn
    \/ LoadDirectives
    \/ OsmAction
    \/ OsmReturn

Spec == Init /\ [][Next]_vars

(***************************************************************************)
(* Properties of the resolvers                                             *)
(***************************************************************************)
IsDirectiveLine(line) == StartsWith(line, "Include: ") \/ StartsWith(line, "Exclude: ")

\* the (verb, pattern) pairs the lines of glob_fun.py state
RECURSIVE LineDirectives(_)
LineDirectives(ls) ==
    IF ls = <<>> THEN <<>>
    ELSE (IF IsDirectiveLine(Head(ls))
          THEN <<[verb |-> IF StartsWith(Head(ls), "Include: ") THEN "include" ELSE "exclude",
                  pattern |-> SubSeq(Head(ls), Len("Include: ") + 1, Len(Head(ls)))]>>
          ELSE <<>>) \o LineDirectives(Tail(ls))

\* the (verb, pattern) pairs the entries of "files_to_copy" state
EntryDirectives(entries) ==
    [n \in 1..Len(entries) |->
        [verb |-> IF entries[n].items[1][1] = "copy" THEN "include" ELSE "exclude",
         pattern |-> entries[n].items[1][2].val]]

\* the directives processed so far
DirectivesDone ==
    IF prog = "glob_fun" THEN LineDirectives(SubSeq(directives, 1, k - 1))
    ELSE EntryDirectives(SubSeq(OSM_CONFIG.files_to_copy, 1, k - 1))

\* the set the running program is building
ResultSet == IF prog = "glob_fun" THEN result ELSE files

Expansion(pattern) ==
    IF prog = "glob_fun" THEN get_items_from(fs, SrcDir, pattern)
    ELSE get_matching_files(fs, SrcDir, pattern)

\* the left-to-right fold: include is union, exclude is set difference
RECURSIVE FoldLeft(_, _)
FoldLeft(acc, ds) ==
    IF ds = <<>> THEN acc
    ELSE FoldLeft(IF Head(ds).verb = "include"
                  THEN acc \cup Expansion(Head(ds).pattern)
                  ELSE acc \ Expansion(Head(ds).pattern),
                  Tail(ds))

\* the input of the run as (verb, pattern) pairs, when all of it is directives
InputIs(ds) ==
    IF prog = "glob_fun"
    THEN directives = [n \in 1..Len(ds) |->
                          (IF ds[n][1] = "include" THEN "Include: " ELSE "Exclude: ") \o ds[n][2]]
    ELSE OSM_CONFIG.files_to_copy =
             [n \in 1..Len(ds) |->
                 Entry(IF ds[n][1] = "include" THEN "copy" ELSE "skip", ds[n][2])]

ExistingFilePatterns == {p \in Patterns : is_file(fs, SrcDir \o PathParts(p))}

\* C1: after every directive, and so in the set returned, the set is the
\* left-to-right fold from the empty set of the directives processed so far,
\* an include adding its expansion and an exclude removing it; for an existing
\* file A, [Include A, Exclude A] returns a set without A and
\* [Exclude A, Include A] a set with A.
C1_OrderedFold ==
    /\ ResultSet = FoldLeft({}, DirectivesDone)
    /\ \A A \in ExistingFilePatterns :
         pc = "done" =>
           /\ InputIs(<<<<"include", A>>, <<"exclude", A>>>>) => PathParts(A) \notin ResultSet
           /\ InputIs(<<<<"exclude", A>>, <<"include", A>>>>) => PathParts(A) \in ResultSet

C1_Witness ==
    /\ prog = "osm"
    /\ pc = "done"
    /\ InputIs(<<<<"exclude", "a.json">>, <<"include", "a.json">>>>)
    /\ is_file(fs, SrcDir \o <<"a.json">>)
    /\ files = {<<"a.json">>}

ScenarioResult ==
    {PathParts("snippets/x.md"), PathParts("plugins/buttons/main.js"),
     PathParts("plugins/tag-wrangler/index.js")}

IsScenarioRun ==
    /\ fs = MkTree(SrcDir, ScenarioFiles)
    /\ \/ prog = "glob_fun" /\ directives = ScenarioLines
       \/ prog = "osm" /\ OSM_CONFIG.files_to_copy = ScenarioEntries

\* C2: on the scenario root, the seven scenario directives in their order
\* return exactly snippets/x.md, plugins/buttons/main.js and
\* plugins/tag-wrangler/index.js.
C2_Scenario == IsScenarioRun /\ pc = "done" => ResultSet = ScenarioResult

C2_Witness ==
    /\ IsScenarioRun
    /\ prog = "osm"
    /\ pc = "done"
    /\ Len(expansions) = Len(ScenarioEntries)
    /\ files = ScenarioResult

\* C3: in every state of a run, every member of the set is the root-relative
\* path of an existing regular file below the root, never of a directory.
C3_OnlyFiles ==
    \A member \in result \cup files :
        /\ member # <<>>
        /\ is_file(fs, SrcDir \o member)
        /\ ~is_dir(fs, SrcDir \o member)

C3_Witness ==
    /\ prog = "glob_fun"
    /\ fs = MkTree(SrcDir, NestedFiles)
    /\ pc = "process"
    /\ directives = <<"Include: *.json", "Include: plugins">>
    /\ k = Len(directives)
    /\ is_dir(fs, SrcDir \o <<"dir.json">>)
    /\ result = {<<"a.json">>}

\* the root-relative paths of the regular files at any depth below dir
FilesBelow(dir) ==
    {relative_to(q, SrcDir) : q \in {x \in DOMAIN fs : IsStrictPrefix(dir, x) /\ fs[x] = "file"}}

\* a relative path matches the parts of a glob: "**" stands for any number
\* of directories, every other part matches one name
RECURSIVE PartsMatch(_, _)
PartsMatch(path, parts) ==
    IF parts = <<>> THEN path = <<>>
    ELSE IF Head(parts) = "**"
    THEN /\ Tail(parts) # <<>>
         /\ \E n \in 0..Len(path) : PartsMatch(SubSeq(path, n + 1, Len(path)), Tail(parts))
    ELSE /\ path # <<>>
         /\ fnmatch(Head(path), Head(parts))
         /\ PartsMatch(Tail(path), Tail(parts))

GlobMatches(item) == {m \in FilesBelow(SrcDir) : PartsMatch(m, PathParts(item))}

\* C4: an expansion takes the first interpretation that applies: an existing
\* regular file expands to itself alone, otherwise an existing directory to
\* the files below it, and only otherwise is the pattern a glob; a pattern
\* naming an existing file or directory is never read as a glob.
C4_Precedence ==
    \A n \in 1..Len(expansions) :
        LET e == expansions[n]
            target == SrcDir \o PathParts(e.item)
        IN  IF is_file(fs, target) THEN e.items = {PathParts(e.item)}
            ELSE IF is_dir(fs, target) THEN e.items = FilesBelow(target)
            ELSE e.items = GlobMatches(e.item)

C4_Witness ==
    /\ prog = "glob_fun"
    /\ Len(expansions) = 2
    /\ expansions[1].item = "*.json"
    /\ is_file(fs, SrcDir \o <<"*.json">>)
    /\ is_file(fs, SrcDir \o <<"a.json">>)
    /\ expansions[1].items = {<<"*.json">>}
    /\ expansions[2].item = "p*"
    /\ is_dir(fs, SrcDir \o <<"p*">>)
    /\ is_dir(fs, SrcDir \o <<"plugins">>)
    /\ expansions[2].items = {<<"p*", "q.md">>}

\* C5: expanding an existing directory D gives exactly the regular files at
\* any depth below D, each relative to the root and so starting with D, and no
\* directory; Include D alone returns exactly those N paths.
C5_DirectoryWalk ==
    \A n \in 1..Len(expansions) :
        LET e == expansions[n]
            D == PathParts(e.item)
            N == Cardinality({q \in DOMAIN fs : IsStrictPrefix(SrcDir \o D, q) /\ fs[q] = "file"})
        IN  is_dir(fs, SrcDir \o D) =>
              /\ \A m \in e.items : IsStrictPrefix(D, m) /\ is_file(fs, SrcDir \o m)
              /\ \A q \in DOMAIN fs :
                    IsStrictPrefix(SrcDir \o D, q) /\ fs[q] = "file"
                        => relative_to(q, SrcDir) \in e.items
              /\ Cardinality(e.items) = N
              /\ n = Len(expansions) /\ e.operation = "add" => e.items \subseteq ResultSet
              /\ Len(expansions) = 1 /\ e.operation = "add" => ResultSet = e.items

C5_Witness ==
    /\ prog = "osm"
    /\ fs = MkTree(SrcDir, ScenarioFiles)
    /\ Len(expansions) = 1
    /\ expansions[1].item = "plugins"
    /\ expansions[1].operation = "add"
    /\ files = {PathParts("plugins/buttons/styles.css"), PathParts("plugins/buttons/main.js"),
                PathParts("plugins/tag-wrangler/index.js")}

EndsWith(s, suffix) ==
    /\ Len(s) >= Len(suffix)
    /\ SubSeq(s, Len(s) - Len(suffix) + 1, Len(s)) = suffix

IsGlobExpansion(e) ==
    /\ ~is_file(fs, SrcDir \o PathParts(e.item))
    /\ ~is_dir(fs, SrcDir \o PathParts(e.item))

\* the item of the directive the run is at
CurrentItem ==
    IF prog = "glob_fun" THEN DirectiveItem(directives[k]) ELSE ACTIONS_TO_TAKE[k][2]

\* C6: a pattern naming no existing file or directory is a glob scoped to its
\* directory: "*.json" gives the *.json files directly in the root and none
\* from a subdirectory, "sub/*.json" those directly in sub; a glob without
\* "**" only gives paths as deep as itself; a glob matching nothing gives the
\* empty expansion, and only a malformed pattern raises.
C6_GlobScope ==
    /\ \A n \in 1..Len(expansions) :
         LET e == expansions[n]
         IN  IsGlobExpansion(e) =>
               /\ e.item = "*.json" =>
                    e.items = {m \in FilesBelow(SrcDir) : Len(m) = 1 /\ EndsWith(m[1], ".json")}
               /\ e.item = "sub/*.json" =>
                    e.items = {m \in FilesBelow(SrcDir) :
                                 Len(m) = 2 /\ m[1] = "sub" /\ EndsWith(m[2], ".json")}
               /\ (\A i \in 1..Len(PathParts(e.item)) : PathParts(e.item)[i] # "**")
                    => \A m \in e.items : Len(m) = Len(PathParts(e.item))
               /\ GlobMatches(e.item) = {} => e.items = {}
    /\ pc = "raised" /\ is_dir(fs, SrcDir)
         => InvalidPattern(CurrentItem) \/ PathParts(CurrentItem) = <<>>

C6_Witness ==
    /\ prog = "osm"
    /\ fs = MkTree(SrcDir, NestedFiles)
    /\ pc = "done"
    /\ Len(expansions) = 2
    /\ expansions[1].item = "*.json"
    /\ expansions[1].operation = "add"
    /\ is_file(fs, SrcDir \o PathParts("sub/c.json"))
    /\ expansions[1].items = {<<"a.json">>}
    /\ expansions[2].item = "sub/*.json"
    /\ is_file(fs, SrcDir \o PathParts("sub/deep/e.json"))
    /\ expansions[2].items = {PathParts("sub/c.json")}

\* process() on a list of lines: the set it builds and what it prints
RECURSIVE RunProcess(_, _)
RunProcess(ls, collection) ==
    IF ls = <<>> THEN collection
    ELSE RunProcess(Tail(ls), process_one_directive(fs, SrcDir, Head(ls), collection))

RECURSIVE RunPrints(_)
RunPrints(ls) ==
    IF ls = <<>> THEN <<>>
    ELSE process_one_directive_prints(Head(ls)) \o RunPrints(Tail(ls))

\* a non-blank line that starts with neither verb, compared exactly
IsUnknownLine(line) == line # "" /\ ~IsDirectiveLine(line)

IsKnownLine(line) == ~IsUnknownLine(line)

RECURSIVE Warnings(_)
Warnings(ls) ==
    IF ls = <<>> THEN <<>>
    ELSE (IF IsUnknownLine(Head(ls)) THEN <<UnknownDirectiveMsg(Head(ls))>> ELSE <<>>)
         \o Warnings(Tail(ls))

\* the lines process() has gone through
LinesDone == SubSeq(directives, 1, k - 1)

\* C8: in glob_fun.py a non-blank line starting with neither "Include: " nor
\* "Exclude: " (compared exactly, case included) is reported with a warning
\* naming it and changes nothing: the set is the one the same lines without
\* the unknown ones give, one warning is printed per unknown line, and an
\* unknown line never stops the run.
C8_TolerantUnknown ==
    prog = "glob_fun" =>
        /\ result = RunProcess(SelectSeq(LinesDone, IsKnownLine), {})
        /\ stdout = Warnings(LinesDone)
        /\ pc = "raised" /\ is_dir(fs, SrcDir) => IsDirectiveLine(directives[k])

C8_Witness ==
    /\ prog = "glob_fun"
    /\ pc = "done"
    /\ directives = MixedLines
    /\ fs = MkTree(SrcDir, ScenarioFiles)
    /\ result = {<<"b.json">>}
    /\ stdout = <<"Unknown directive 'Rename: foo', ignoring.",
                  "Unknown directive 'include: b.json', ignoring.">>

IsNotBlankLine(line) == line # ""

\* an empty entry, or an entry whose item is the empty string
IsBlankEntry(entry) ==
    \/ entry = JsonDict(<<>>)
    \/ \E action \in DOMAIN FILE_ACTIONS : entry = Entry(action, "")

IsNotBlankEntry(entry) == ~IsBlankEntry(entry)

\* C9 as stated: a blank entry is ignored silently by both resolvers; the run
\* goes as it would on the input without the blank entries.
C9_BlankIgnoredEverywhere ==
    /\ prog = "glob_fun" =>
         /\ result = RunProcess(SelectSeq(LinesDone, IsNotBlankLine), {})
         /\ stdout = RunPrints(SelectSeq(LinesDone, IsNotBlankLine))
    /\ prog = "osm" /\ pc # "config" =>
         LET kept == SelectSeq(OSM_CONFIG.files_to_copy, IsNotBlankEntry)
             got == get_processing_directives(kept)
         IN  /\ ACTIONS_TO_TAKE = got.pairs
             /\ stdout = (IF got.error = "" THEN <<>> ELSE <<got.error>>)
             /\ pc = "exit" <=> got.error # ""

\* the first entry get_processing_directives rejects, 0 when it accepts all
FirstRejected(entries) ==
    IF \E n \in 1..Len(entries) : DirectiveError(entries[n]) # ""
    THEN CHOOSE n \in 1..Len(entries) :
            /\ DirectiveError(entries[n]) # ""
            /\ \A m \in 1..(n - 1) : DirectiveError(entries[m]) = ""
    ELSE 0

\* C9 amended: glob_fun.py ignores an empty line silently.  osm.py does not
\* ignore a blank entry: an empty entry {} reached by the loader ends the run
\* with the "must have only one key" error and a non-zero status, and an
\* entry whose item is "" is expanded, in an existing root, as the root
\* directory itself, to every file below it.
C9_BlankEntries ==
    /\ prog = "glob_fun" =>
         /\ result = RunProcess(SelectSeq(LinesDone, IsNotBlankLine), {})
         /\ stdout = Warnings(SelectSeq(LinesDone, IsNotBlankLine))
    /\ prog = "osm" /\ pc # "config" =>
         LET entries == OSM_CONFIG.files_to_copy
             n == FirstRejected(entries)
         IN  /\ n # 0 /\ entries[n] = JsonDict(<<>>) =>
                  /\ pc = "exit"
                  /\ status = "255"
                  /\ stdout = <<"Error: OSM Configuration list elements under "
                                \o "\"files_to_copy\" must have only one key: {}">>
                  /\ files = {}
             /\ \A m \in 1..Len(expansions) :
                  expansions[m].item = "" /\ is_dir(fs, SrcDir)
                      => expansions[m].items = FilesBelow(SrcDir)

C9_Witness ==
    /\ prog = "osm"
    /\ pc = "done"
    /\ OSM_CONFIG.files_to_copy = <<Entry("copy", "a.json"), Entry("skip", "")>>
    /\ is_file(fs, SrcDir \o <<"a.json">>)
    /\ Len(expansions) = 2
    /\ files = {}

(***************************************************************************)
(* osm.py: operations on the filesystem                                    *)
(*                                                                         *)
(* An operation gives the filesystem it leaves and how it ended: "ok", or   *)
(* "raise" for an exception (main's except clause prints the traceback),    *)
(* or "exit" for exit(-1).                                                  *)
(***************************************************************************)
Outcome(tree, end) == [tree |-> tree, end |-> end]

Put(tree, p, kind) == [q \in DOMAIN tree \cup {p} |-> IF q = p THEN kind ELSE tree[q]]

\* Path.mkdir(exist_ok=...): the parent must be a directory
mkdir(tree, p, exist_ok) ==
    IF exists(tree, p)
    THEN Outcome(tree, IF exist_ok /\ is_dir(tree, p) THEN "ok" ELSE "raise")
    ELSE IF ~is_dir(tree, Parent(p)) THEN Outcome(tree, "raise")
    ELSE Outcome(Put(tree, p, "dir"), "ok")

\* shutil.rmtree(p, ignore_errors=True): a directory goes with all below it,
\* anything else stays
rmtree(tree, p) ==
    IF is_dir(tree, p)
    THEN [q \in {x \in DOMAIN tree : ~IsPrefix(p, x)} |-> tree[q]]
    ELSE tree

\* shutil.copy2(src, dst): into dst when dst is a directory
copy2(tree, src, dst) ==
    LET to == IF is_dir(tree, dst) THEN dst \o <<Name(src)>> ELSE dst
    IN  IF ~is_file(tree, src) \/ is_dir(tree, to) \/ ~is_dir(tree, Parent(to))
        THEN Outcome(tree, "raise")
        ELSE Outcome(Put(tree, to, "file"), "ok")

\* shutil.copytree(src, dst): dst must not exist; os.makedirs creates it and
\* the directories leading to it
copytree(tree, src, dst) ==
    IF exists(tree, dst) \/ \E q \in Prefixes(dst) : is_file(tree, q)
    THEN Outcome(tree, "raise")
    ELSE LET made == Prefixes(dst) \cup {dst}
             copied == {dst \o relative_to(q, src) : q \in Descendants(tree, src)}
         IN  Outcome([q \in DOMAIN tree \cup made \cup copied |->
                        IF q \in DOMAIN tree THEN tree[q]
                        ELSE IF q \in made THEN "dir"
                        ELSE tree[src \o relative_to(q, dst)]],
                     "ok")

\* copy_directory (lines 409-414)
copy_directory(tree, src_target, dest_target, dry_run) ==
    IF dry_run THEN Outcome(tree, "ok") ELSE copytree(tree, src_target, dest_target)

\* copy_file (lines 416-421)
copy_file(tree, src_target, dest_target, dry_run) ==
    IF dry_run THEN Outcome(tree, "ok") ELSE copy2(tree, src_target, dest_target)

\* recreate_dir (lines 423-429)
recreate_dir(tree, dest, dry_run) ==
    IF dry_run THEN Outcome(tree, "ok") ELSE mkdir(rmtree(tree, dest), dest, FALSE)

\* copy_settings_item (lines 450-467)
copy_settings_item(tree, src, dest, itemname, dry_run) ==
    IF ~exists(tree, src \o itemname) THEN Outcome(tree, "ok")
    ELSE IF is_dir(tree, src \o itemname)
    THEN copy_directory(tree, src \o itemname, dest \o itemname, dry_run)
    ELSE copy_file(tree, src \o itemname, dest \o itemname, dry_run)

\* the loop of copy_settings (lines 494-495): it ends at the first
\* exception; tried are the items copy_settings_item was called for
RECURSIVE copy_settings_items(_, _, _, _, _)
copy_settings_items(tree, src, dest, items, dry_run) ==
    IF items = <<>> THEN [tree |-> tree, end |-> "ok", tried |-> <<>>]
    ELSE LET one == copy_settings_item(tree, src, dest, Head(items), dry_run)
             rest == copy_settings_items(one.tree, src, dest, Tail(items), dry_run)
         IN  IF one.end # "ok"
             THEN [tree |-> one.tree, end |-> one.end, tried |-> <<Head(items)>>]
             ELSE [tree |-> rest.tree, end |-> rest.end,
                   tried |-> <<Head(items)>> \o rest.tried]

(***************************************************************************)
(* osm.py: the selected files                                              *)
(***************************************************************************)
process_action_list_in_raises(tree, source_dir, actions_list) ==
    \E n \in 1..Len(actions_list) : get_matching_files_raises(tree, source_dir, actions_list[n][2])

\* the loop of process_action_list_in (lines 247-249) from a given set
RECURSIVE process_actions(_, _, _, _)
process_actions(tree, source_dir, actions_list, collection) ==
    IF actions_list = <<>> THEN collection
    ELSE process_actions(tree, source_dir, Tail(actions_list),
                         process_action(tree, source_dir, Head(actions_list)[1],
                                        Head(actions_list)[2], collection))

\* process_action_list_in (lines 243-250)
process_action_list_in(tree, source_dir, actions_list) ==
    process_actions(tree, source_dir, actions_list, {})

\* get_items_to_copy raises when it resolves and the resolution raises
get_items_to_copy_raises(tree, src, cached, actions_list) ==
    cached = <<>> /\ process_action_list_in_raises(tree, src, actions_list)

\* get_items_to_copy that resolves on every call
get_items_to_copy_AlwaysResolves(tree, src, cached, actions_list) ==
    sorted(process_action_list_in(tree, src, actions_list))

\* get_items_to_copy (lines 315-323): ITEMS_TO_COPY after the call, which is
\* also the list returned
get_items_to_copy(tree, src, cached, actions_list) ==
    IF cached = <<>>
    THEN cached \o sorted(process_action_list_in(tree, src, actions_list))
    ELSE cached

(***************************************************************************)
(* osm.py: backup_vault                                                    *)
(***************************************************************************)
\* datestring(), as in the comment at line 474
DateString == "2021-05-23T23:38:32.509386Z"

\* the archive formats shutil.make_archive knows, with their extensions
ArchiveExtension ==
    [zip |-> ".zip", tar |-> ".tar", gztar |-> ".tar.gz", bztar |-> ".tar.bz2",
     xztar |-> ".tar.xz"]

\* the formats of the priority list that make_archive knows, in order
IsKnownFormat(format) == format \in DOMAIN ArchiveExtension

\* backup_vault (lines 538-562): mkdir is done in a dry run too; the first
\* known format is the one used, and make_archive raises when the settings
\* directory is missing
backup_vault(tree, vault_path, backup_info, dry_run) ==
    LET backup_from_dir == vault_path \o <<".obsidian">>
        backup_full_dir == vault_path \o PathParts(backup_info.location)
        made == mkdir(tree, backup_full_dir, TRUE)
        known == SelectSeq(backup_info.archive_format_priority_list, IsKnownFormat)
    IN  IF made.end # "ok" THEN made
        ELSE IF known = <<>> THEN Outcome(made.tree, "exit")
        ELSE IF ~is_dir(made.tree, backup_from_dir) THEN Outcome(made.tree, "raise")
        ELSE IF dry_run THEN Outcome(made.tree, "ok")
        ELSE Outcome(Put(made.tree,
                         backup_full_dir \o <<DateString \o ArchiveExtension[Head(known)]>>,
                         "file"),
                     "ok")

(***************************************************************************)
(* osm.py: copy_settings and diff_settings                                 *)
(*                                                                         *)
(* A call gives the filesystem and ITEMS_TO_COPY it leaves, how it ended,   *)
(* the operations it called and the calls of get_items_to_copy it made.     *)
(***************************************************************************)
Call(tree, end, items, done, asked) ==
    [tree |-> tree, end |-> end, items |-> items, ops |-> done, calls |-> asked]

Op(name, target) == [op |-> name, target |-> target]

\* the record of one call of get_items_to_copy: its argument, the list it
\* returned and the filesystem it ran on
Asked(tree, src, returned) == [src |-> src, returned |-> returned, tree |-> tree]

\* copy_settings that goes on to the copy when backup_vault did not end well
copy_settings_IgnoresBackup(tree, dest, src, clean_first, cached, actions_list, backup_info, dry_run) ==
    IF ~exists(tree, src) \/ ~exists(tree, dest) THEN Call(tree, "raise", cached, <<>>, <<>>)
    ELSE IF src = dest THEN Call(tree, "ok", cached, <<>>, <<>>)
    ELSE
    LET saved == backup_vault(tree, dest, backup_info, dry_run)
        src_dir == src \o <<".obsidian">>
        dest_dir == dest \o <<".obsidian">>
        cleaned == IF clean_first THEN recreate_dir(saved.tree, dest_dir, dry_run)
                   ELSE Outcome(saved.tree, "ok")
        ops2 == <<Op("backup_vault", dest)>>
                    \o (IF clean_first THEN <<Op("recreate_dir", dest_dir)>> ELSE <<>>)
        items == get_items_to_copy(cleaned.tree, src_dir, cached, actions_list)
        copied == copy_settings_items(cleaned.tree, src_dir, dest_dir, items, dry_run)
    IN  IF cleaned.end # "ok" THEN Call(cleaned.tree, cleaned.end, cached, ops2, <<>>)
        ELSE IF get_items_to_copy_raises(cleaned.tree, src_dir, cached, actions_list)
        THEN Call(cleaned.tree, "raise", cached, ops2, <<>>)
        ELSE Call(copied.tree, copied.end, items,
                  ops2 \o [n \in 1..Len(copied.tried) |->
                              Op("copy_settings_item", dest_dir \o copied.tried[n])],
                  <<Asked(cleaned.tree, src_dir, items)>>)

\* copy_settings without the samefile test of lines 480-482
copy_settings_NoSelfCheck(tree, dest, src, clean_first, cached, actions_list, backup_info, dry_run) ==
    IF ~exists(tree, src) \/ ~exists(tree, dest) THEN Call(tree, "raise", cached, <<>>, <<>>)
    ELSE
    LET saved == backup_vault(tree, dest, backup_info, dry_run)
        src_dir == src \o <<".obsidian">>
        dest_dir == dest \o <<".obsidian">>
        cleaned == IF clean_first THEN recreate_dir(saved.tree, dest_dir, dry_run)
                   ELSE Outcome(saved.tree, "ok")
        ops1 == <<Op("backup_vault", dest)>>
        ops2 == ops1 \o (IF clean_first THEN <<Op("recreate_dir", dest_dir)>> ELSE <<>>)
        items == get_items_to_copy(cleaned.tree, src_dir, cached, actions_list)
        copied == copy_settings_items(cleaned.tree, src_dir, dest_dir, items, dry_run)
    IN  IF saved.end # "ok" THEN Call(saved.tree, saved.end, cached, ops1, <<>>)
        ELSE IF cleaned.end # "ok" THEN Call(cleaned.tree, cleaned.end, cached, ops2, <<>>)
        ELSE IF get_items_to_copy_raises(cleaned.tree, src_dir, cached, actions_list)
        THEN Call(cleaned.tree, "raise", cached, ops2, <<>>)
        ELSE Call(copied.tree, copied.end, items,
                  ops2 \o [n \in 1..Len(copied.tried) |->
                              Op("copy_settings_item", dest_dir \o copied.tried[n])],
                  <<Asked(cleaned.tree, src_dir, items)>>)

\* copy_settings (lines 469-495)
copy_settings(tree, dest, src, clean_first, cached, actions_list, backup_info, dry_run) ==
    IF ~exists(tree, src) \/ ~exists(tree, dest) THEN Call(tree, "raise", cached, <<>>, <<>>)
    ELSE IF src = dest THEN Call(tree, "ok", cached, <<>>, <<>>)
    ELSE
    LET saved == backup_vault(tree, dest, backup_info, dry_run)
        src_dir == src \o <<".obsidian">>
        dest_dir == dest \o <<".obsidian">>
        cleaned == IF clean_first THEN recreate_dir(saved.tree, dest_dir, dry_run)
                   ELSE Outcome(saved.tree, "ok")
        ops1 == <<Op("backup_vault", dest)>>
        ops2 == ops1 \o (IF clean_first THEN <<Op("recreate_dir", dest_dir)>> ELSE <<>>)
        items == get_items_to_copy(cleaned.tree, src_dir, cached, actions_list)
        copied == copy_settings_items(cleaned.tree, src_dir, dest_dir, items, dry_run)
    IN  IF saved.end # "ok" THEN Call(saved.tree, saved.end, cached, ops1, <<>>)
        ELSE IF cleaned.end # "ok" THEN Call(cleaned.tree, cleaned.end, cached, ops2, <<>>)
        ELSE IF get_items_to_copy_raises(cleaned.tree, src_dir, cached, actions_list)
        THEN Call(cleaned.tree, "raise", cached, ops2, <<>>)
        ELSE Call(copied.tree, copied.end, items,
                  ops2 \o [n \in 1..Len(copied.tried) |->
                              Op("copy_settings_item", dest_dir \o copied.tried[n])],
                  <<Asked(cleaned.tree, src_dir, items)>>)

\* the items of the list diff_settings runs do_diff for (lines 525-530)
IsInBoth(tree, src_dir, dest_dir, item) ==
    exists(tree, src_dir \o item) /\ exists(tree, dest_dir \o item)

\* diff_settings (lines 508-535): it changes no file
diff_settings(tree, dest, src, cached, actions_list) ==
    IF ~exists(tree, src) \/ ~exists(tree, dest) THEN Call(tree, "raise", cached, <<>>, <<>>)
    ELSE IF src = dest THEN Call(tree, "ok", cached, <<>>, <<>>)
    ELSE
    LET src_dir == src \o <<".obsidian">>
        dest_dir == dest \o <<".obsidian">>
        items == get_items_to_copy(tree, src_dir, cached, actions_list)
        InBoth(item) == IsInBoth(tree, src_dir, dest_dir, item)
        both == SelectSeq(items, InBoth)
    IN  IF get_items_to_copy_raises(tree, src_dir, cached, actions_list)
        THEN Call(tree, "raise", cached, <<>>, <<>>)
        ELSE Call(tree, "ok", items,
                  [n \in 1..Len(both) |-> Op("do_diff", dest_dir \o both[n])],
                  <<Asked(tree, src_dir, items)>>)

(***************************************************************************)
(* osm.py: the inputs of a run of main                                     *)
(***************************************************************************)
\* get_vault_paths (lines 368-374): the vaults Obsidian tracks, sorted
get_vault_paths == <<Home \o <<"other">>, Home \o <<"vault">>, Home \o <<"zettel">>>>

\* the filesystem holding the named files and directories below Home, with
\* the directories that lead to them
MkHome(names, dirs) ==
    LET paths == {Home \o PathParts(f) : f \in names}
        made  == {Home \o PathParts(d) : d \in dirs}
        above == UNION {Prefixes(q) : q \in paths \cup made}
    IN  [q \in paths \cup made \cup above \cup {Home} |->
            IF q \in paths THEN "file" ELSE "dir"]

\* three vaults with settings; the last one has none yet
FullHome ==
    MkHome({"vault/.obsidian/a.json", "vault/.obsidian/workspace.json",
            "vault/.obsidian/plugins/buttons/main.js", "vault/.obsidian/snippets/x.md",
            "other/.obsidian/a.json", "other/.obsidian/old.json", "other/note.md"},
           {"zettel/.obsidian"})

\* the source vault has no settings file
EmptySourceHome ==
    MkHome({"other/.obsidian/a.json", "zettel/.obsidian/z.json"}, {"vault/.obsidian"})

\* one vault without a settings directory, one that is not on the disk
PartialHome ==
    MkHome({"vault/.obsidian/a.json", "vault/.obsidian/sub/c.json"}, {"other"})

\* the source vault is not on the disk
NoSourceHome ==
    MkHome({"other/.obsidian/a.json", "zettel/.obsidian/z.json"}, {})

\* the source vault is on the disk but has no settings directory
NoSettingsHome ==
    MkHome({"vault/note.md", "other/.obsidian/a.json", "other/.obsidian/old.json",
            "zettel/.obsidian/z.json"}, {})

HomeFileSystems == {FullHome, EmptySourceHome, PartialHome, NoSourceHome, NoSettingsHome}

\* init_argparse (lines 203-222): the commands that take a vault
VaultCommands == {"show-selected", "update", "exact-copy-of", "diff-to", "backup-vault"}

Commands == VaultCommands \cup {"list", "backup-all-vaults"}

CommandLines ==
    [command : VaultCommands, vault : {"vault", "nosuch"}, dry_run : BOOLEAN]
        \cup [command : Commands \ VaultCommands, vault : {""}, dry_run : BOOLEAN]

\* entries of "files_to_copy" for a run of main
MainEntries ==
    {Entry("copy", "*.json"), Entry("skip", "a.json"), Entry("rename", "foo"),
     Entry("Copy", "a.json"), JsonStr("a.json")}

MainEntryLists ==
    SeqsUpTo(MainEntries, MaxDirectives)
        \cup {DefaultFilesToCopy, ScenarioEntries, <<Entry("copy", ".")>>,
              <<Entry("copy", "*.json"), Entry("skip", "a.json"), Entry("rename", "foo")>>,
              <<Entry("copy", "*.json"), Entry("delete", "a.json"), Entry("skip", "a.json")>>}

\* a priority list in which make_archive knows no format
Backups ==
    {DefaultBackup,
     [archive_format_priority_list |-> <<"rar", "7z">>, location |-> DefaultBackup.location],
     [archive_format_priority_list |-> <<"rar", "tar">>, location |-> DefaultBackup.location]}

\* the files another program creates or deletes in the source vault's settings
\* while osm.py runs, and how many times it does
ChangedFiles == {"a.json", "new.json"}

MaxChanges == 1

(***************************************************************************)
(* osm.py: main                                                            *)
(***************************************************************************)
\* Path.home() / args.<command>
from_vault == Home \o PathParts(args.vault)

\* str(Path)
RECURSIVE PathStr(_)
PathStr(p) == IF p = <<>> THEN "" ELSE "/" \o Head(p) \o PathStr(Tail(p))

RECURSIVE JoinRepr(_)
JoinRepr(formats) ==
    IF formats = <<>> THEN ""
    ELSE "'" \o Head(formats) \o "'" \o (IF Len(formats) > 1 THEN ", " ELSE "")
         \o JoinRepr(Tail(formats))

\* backup_vault line 561
BackupFailedMsg(vault_path) ==
    "Unable to make backup of " \o PathStr(vault_path) \o " in any format: "
        \o JoinRepr(OSM_CONFIG.backup.archive_format_priority_list)

\* the first line of what traceback.print_exc() prints (line 646)
TracebackMsg == "Traceback (most recent call last):"

\* lines 613-615: the vault list is read and the directives are loaded
\* before any command is looked at
MainLoad ==
    /\ prog = "osm"
    /\ pc = "main"
    /\ LET got == get_processing_directives(OSM_CONFIG.files_to_copy)
       IN  /\ ACTIONS_TO_TAKE' = ACTIONS_TO_TAKE \o got.pairs
           /\ IF got.error # ""
              THEN /\ stdout' = Append(stdout, got.error)
                   /\ pc' = "exit"
                   /\ status' = "255"
              ELSE /\ pc' = IF args.command \in VaultCommands THEN "ensure" ELSE "run"
                   /\ UNCHANGED <<stdout, status>>
    /\ UNCHANGED <<fs, loopVars, prog, OSM_CONFIG, mainVars>>

\* ensure_valid_vault (lines 378-388)
EnsureValidVault ==
    /\ pc = "ensure"
    /\ IF \E n \in 1..Len(get_vault_paths) : get_vault_paths[n] = from_vault
       THEN /\ pc' = "run"
            /\ UNCHANGED <<stdout, status>>
       ELSE /\ stdout' = stdout
                    \o <<"Error: '" \o args.vault \o "' is not one of your vaults:">>
                    \o [n \in 1..Len(get_vault_paths) |-> Name(get_vault_paths[n])]
            /\ pc' = "exit"
            /\ status' = "255"
    /\ UNCHANGED <<fs, loopVars, prog, OSM_CONFIG, ACTIONS_TO_TAKE, mainVars>>

\* how an operation of main ends: the loop goes on, or the exception reaches
\* line 645 and main returns, or exit(-1) ends the process
Ended(end, exit_msg, next_vault) ==
    IF end = "ok"
    THEN /\ vault_no' = next_vault
         /\ UNCHANGED <<pc, status, stdout>>
    ELSE IF end = "raise"
    THEN /\ pc' = "done"
         /\ status' = "0"
         /\ stdout' = Append(stdout, TracebackMsg)
         /\ UNCHANGED vault_no
    ELSE /\ pc' = "exit"
         /\ status' = "255"
         /\ stdout' = Append(stdout, exit_msg)
         /\ UNCHANGED vault_no

\* one call of copy_settings by call_for_each_vault (lines 622-627)
CopySettings ==
    /\ pc = "run"
    /\ args.command \in {"update", "exact-copy-of"}
    /\ vault_no <= Len(get_vault_paths)
    /\ LET did == copy_settings(fs, get_vault_paths[vault_no], from_vault,
                                args.command = "exact-copy-of", ITEMS_TO_COPY,
                                ACTIONS_TO_TAKE, OSM_CONFIG.backup, args.dry_run)
       IN  /\ fs' = did.tree
           /\ ITEMS_TO_COPY' = did.items
           /\ ops' = ops \o did.ops
           /\ calls' = calls \o did.calls
           /\ Ended(did.end, BackupFailedMsg(get_vault_paths[vault_no]), vault_no + 1)
    /\ UNCHANGED <<loopVars, prog, OSM_CONFIG, ACTIONS_TO_TAKE, args, changes>>

\* one call of diff_settings by call_for_each_vault (lines 628-630)
DiffSettings ==
    /\ pc = "run"
    /\ args.command = "diff-to"
    /\ vault_no <= Len(get_vault_paths)
    /\ LET did == diff_settings(fs, get_vault_paths[vault_no], from_vault,
                                ITEMS_TO_COPY, ACTIONS_TO_TAKE)
       IN  /\ ITEMS_TO_COPY' = did.items
           /\ ops' = ops \o did.ops
           /\ calls' = calls \o did.calls
           /\ Ended(did.end, "", vault_no + 1)
    /\ UNCHANGED <<fs, loopVars, prog, OSM_CONFIG, ACTIONS_TO_TAKE, args, changes>>

\* one call of backup_vault by call_for_each_vault (lines 631-632)
BackupAllVaults ==
    /\ pc = "run"
    /\ args.command = "backup-all-vaults"
    /\ vault_no <= Len(get_vault_paths)
    /\ LET did == backup_vault(fs, get_vault_paths[vault_no], OSM_CONFIG.backup, args.dry_run)
       IN  /\ fs' = did.tree
           /\ ops' = Append(ops, Op("backup_vault", get_vault_paths[vault_no]))
           /\ Ended(did.end, BackupFailedMsg(get_vault_paths[vault_no]), vault_no + 1)
    /\ UNCHANGED <<loopVars, prog, OSM_CONFIG, ACTIONS_TO_TAKE, args, ITEMS_TO_COPY,
                   calls, changes>>

\* backup_vault of the named vault (lines 633-635)
BackupVault ==
    /\ pc = "run"
    /\ args.command = "backup-vault"
    /\ vault_no <= Len(get_vault_paths)
    /\ LET did == backup_vault(fs, from_vault, OSM_CONFIG.backup, args.dry_run)
       IN  /\ fs' = did.tree
           /\ ops' = Append(ops, Op("backup_vault", from_vault))
           /\ Ended(did.end, BackupFailedMsg(from_vault), Len(get_vault_paths) + 1)
    /\ UNCHANGED <<loopVars, prog, OSM_CONFIG, ACTIONS_TO_TAKE, args, ITEMS_TO_COPY,
                   calls, changes>>

\* show_selected_files_for (lines 403-407, called at line 621)
ShowSelected ==
    /\ pc = "run"
    /\ args.command = "show-selected"
    /\ vault_no <= Len(get_vault_paths)
    /\ LET src == from_vault \o <<".obsidian">>
           raises == get_items_to_copy_raises(fs, src, ITEMS_TO_COPY, ACTIONS_TO_TAKE)
           items == get_items_to_copy(fs, src, ITEMS_TO_COPY, ACTIONS_TO_TAKE)
       IN  /\ ITEMS_TO_COPY' = IF raises THEN ITEMS_TO_COPY ELSE items
           /\ calls' = IF raises THEN calls ELSE Append(calls, Asked(fs, src, items))
           /\ Ended(IF raises THEN "raise" ELSE "ok", "", Len(get_vault_paths) + 1)
    /\ UNCHANGED <<fs, loopVars, prog, OSM_CONFIG, ACTIONS_TO_TAKE, args, ops, changes>>

\* show_vault_path for each vault (lines 575-577, called at line 618)
ListVaults ==
    /\ pc = "run"
    /\ args.command = "list"
    /\ vault_no <= Len(get_vault_paths)
    /\ stdout' = stdout \o [n \in 1..Len(get_vault_paths) |-> Name(get_vault_paths[n])]
    /\ vault_no' = Len(get_vault_paths) + 1
    /\ UNCHANGED <<fs, loopVars, prog, OSM_CONFIG, ACTIONS_TO_TAKE, pc, status, args,
                   ITEMS_TO_COPY, ops, calls, changes>>

\* main returns None after the command (line 649: exit(main()))
MainReturn ==
    /\ pc = "run"
    /\ vault_no > Len(get_vault_paths)
    /\ pc' = "done"
    /\ status' = "0"
    /\ UNCHANGED <<fs, loopVars, prog, OSM_CONFIG, ACTIONS_TO_TAKE, stdout, mainVars>>

\* another program creates or deletes a settings file of the source vault
\* between two steps of the run
ExternalChange ==
    /\ pc = "run"
    /\ vault_no <= Len(get_vault_paths)
    /\ changes < MaxChanges
    /\ is_dir(fs, from_vault \o <<".obsidian">>)
    /\ \E name \in ChangedFiles :
          LET p == from_vault \o <<".obsidian", name>>
          IN  fs' = IF exists(fs, p)
                    THEN [q \in DOMAIN fs \ {p} |-> fs[q]]
                    ELSE Put(fs, p, "file")
    /\ changes' = changes + 1
    /\ UNCHANGED <<loopVars, prog, OSM_CONFIG, ACTIONS_TO_TAKE, pc, stdout, status, args,
                   ITEMS_TO_COPY, vault_no, ops, calls>>

InitMain ==
    /\ prog = "osm"
    /\ pc = "main"
    /\ fs \in HomeFileSystems
    /\ args \in CommandLines
    /\ OSM_CONFIG \in [files_to_copy : MainEntryLists, backup : Backups]
    /\ directives = <<>>
    /\ ACTIONS_TO_TAKE = <<>>
    /\ k = 1
    /\ result = {}
    /\ files = {}
    /\ expansions = <<>>
    /\ stdout = <<>>
    /\ status = "running"
    /\ ITEMS_TO_COPY = <<>>
    /\ vault_no = 1
    /\ ops = <<>>
    /\ calls = <<>>
    /\ changes = 0

NextMain ==
    \/ MainLoad
    \/ EnsureValidVault
    \/ CopySettings
    \/ DiffSettings
    \/ BackupAllVaults
    \/ BackupVault
    \/ ShowSelected
    \/ ListVaults
    \/ MainReturn
    \/ ExternalChange

SpecMain == InitMain /\ [][NextMain]_vars

(***************************************************************************)
(* Claims about a run of main                                              *)
(***************************************************************************)
\* the entry is an object whose only key is not an action of FILE_ACTIONS
HasUnknownAction(directive) ==
    /\ directive.type = "dict"
    /\ Len(directive.items) = 1
    /\ directive.items[1][1] \notin DOMAIN FILE_ACTIONS

UnknownActionEntries(entries) ==
    {n \in 1..Len(entries) : HasUnknownAction(entries[n])}

\* the directives have been loaded: line 615 is behind
Loaded == prog = "osm" /\ pc # "main"

\* C7: when an entry of files_to_copy names an action other than "copy" or
\* "skip", wherever it sits in the list and whatever command was asked for,
\* the run ends with a non-zero status right after loading the directives:
\* no backup, copy, delete, recreate or diff has been called, no file was
\* resolved and the filesystem is as it was; the one message printed is the
\* error of the first rejected entry, which names the bad action when that
\* entry is the one with the unknown action.
C7_UnknownActionExits ==
    (Loaded /\ UnknownActionEntries(OSM_CONFIG.files_to_copy) # {}) =>
        LET entries == OSM_CONFIG.files_to_copy
            first == entries[FirstRejected(entries)]
        IN  /\ pc = "exit"
            /\ status = "255"
            /\ ops = <<>>
            /\ calls = <<>>
            /\ ITEMS_TO_COPY = <<>>
            /\ fs \in HomeFileSystems
            /\ stdout = <<DirectiveError(first)>>
            /\ HasUnknownAction(first) =>
                  stdout = <<MustGetKeyMsg(first.items[1][1], BAD_ACTION_MSG)>>

\* the unknown action is the last entry of the list, after two that resolve
C7_Witness ==
    /\ pc = "exit"
    /\ args.command = "exact-copy-of"
    /\ args.vault = "vault"
    /\ ~args.dry_run
    /\ fs = FullHome
    /\ OSM_CONFIG.files_to_copy =
          <<Entry("copy", "*.json"), Entry("skip", "a.json"), Entry("rename", "foo")>>
    /\ stdout = <<"Error, missing key 'rename' is an unknown/invalid action in OSM Configuration in the \"files_to_copy\" list">>
    /\ ops = <<>>

\* what a resolution of the call's src on the filesystem of the call gives
Fresh(asked) == sorted(process_action_list_in(asked.tree, asked.src, ACTIONS_TO_TAKE))

FreshRaises(asked) == process_action_list_in_raises(asked.tree, asked.src, ACTIONS_TO_TAKE)

\* C10 as claimed: every call of get_items_to_copy returns the result of a
\* fresh resolution of its src on the filesystem at the time of the call.
C10_AlwaysFresh ==
    \A n \in 1..Len(calls) : ~FreshRaises(calls[n]) /\ calls[n].returned = Fresh(calls[n])

\* C10 as amended: get_items_to_copy resolves only while the process-wide
\* list ITEMS_TO_COPY is empty. The first call that gives a non-empty list
\* stores it, and every later call returns the stored list whatever the
\* filesystem has become; a call that finds the list empty resolves afresh.
\* ITEMS_TO_COPY is the list the last call returned.
C10_CachedOnceNotEmpty ==
    /\ \A n \in 1..Len(calls) :
          IF n > 1 /\ calls[n - 1].returned # <<>>
          THEN calls[n].returned = calls[n - 1].returned
          ELSE ~FreshRaises(calls[n]) /\ calls[n].returned = Fresh(calls[n])
    /\ calls # <<>> => ITEMS_TO_COPY = calls[Len(calls)].returned

\* the second call returns the stored list although the source has changed
C10_Witness ==
    /\ Len(calls) = 2
    /\ changes = 1
    /\ calls[1].returned # <<>>
    /\ calls[2].returned = calls[1].returned
    /\ calls[2].returned # Fresh(calls[2])

\* the operations that change a destination
IsChangingOp(done) == done.op \in {"recreate_dir", "copy_settings_item"}

\* C11: when the root given to the resolver does not exist, resolution fails
\* before any directive is processed: no call of get_items_to_copy returns a
\* list for a root that is not a directory, and no destination is recreated
\* or copied to while the source's root is missing.
C11_MissingRootIsFatal ==
    /\ \A n \in 1..Len(calls) : is_dir(calls[n].tree, calls[n].src)
    /\ (\E n \in 1..Len(ops) : IsChangingOp(ops[n]))
          => is_dir(fs, from_vault \o <<".obsidian">>)

\* the vault an operation's target lies in
VaultOf(target) == SubSeq(target, 1, Len(Home) + 1)

\* the archive backup_vault writes for a vault
ArchiveOf(vault_path) ==
    LET known == SelectSeq(OSM_CONFIG.backup.archive_format_priority_list, IsKnownFormat)
    IN  vault_path \o PathParts(OSM_CONFIG.backup.location)
            \o <<DateString \o ArchiveExtension[Head(known)]>>

HasArchive(tree, vault_path) ==
    /\ SelectSeq(OSM_CONFIG.backup.archive_format_priority_list, IsKnownFormat) # <<>>
    /\ is_file(tree, ArchiveOf(vault_path))

\* what lies in the settings directories of the vaults
Settings(tree) ==
    [q \in {x \in DOMAIN tree :
              \E n \in 1..Len(get_vault_paths) :
                 IsPrefix(get_vault_paths[n] \o <<".obsidian">>, x)} |-> tree[q]]

\* every change of a vault's settings comes after a backup_vault of that
\* vault in the same run, which outside a dry run has left its archive
BackedUpBeforeChange ==
    \A n \in 1..Len(ops) :
        IsChangingOp(ops[n]) =>
            /\ \E m \in 1..(n - 1) : ops[m] = Op("backup_vault", VaultOf(ops[n].target))
            /\ ~args.dry_run => HasArchive(fs, VaultOf(ops[n].target))

\* copy_settings is about to run for a destination that is not the source
VisitsDestination ==
    /\ pc = "run"
    /\ args.command \in {"update", "exact-copy-of"}
    /\ vault_no <= Len(get_vault_paths)
    /\ changes' = changes
    /\ exists(fs, from_vault)
    /\ exists(fs, get_vault_paths[vault_no])
    /\ from_vault # get_vault_paths[vault_no]

NoFormatKnown ==
    SelectSeq(OSM_CONFIG.backup.archive_format_priority_list, IsKnownFormat) = <<>>

\* C12 as claimed: settings are changed only after backup_vault has produced
\* the vault's archive, and when no archive format succeeds the run ends
\* with a non-zero status and leaves that vault and the later ones as they
\* were.
C12_FailedBackupChangesNothing ==
    /\ []BackedUpBeforeChange
    /\ [][VisitsDestination /\ NoFormatKnown =>
            /\ pc' = "exit"
            /\ status' # "0"
            /\ fs' = fs]_vars

\* C12 as amended: settings are changed only after backup_vault has produced
\* the vault's archive.  When make_archive knows no format of the priority
\* list, the run ends with status 255 and nothing in the settings of any
\* vault has changed, but the vault visited has got its backup directory,
\* which backup_vault creates before it tries the formats.  When the vault
\* visited has no settings directory, make_archive raises, main prints the
\* traceback and returns with status 0, and the settings are unchanged too.
C12_BackupBeforeChange ==
    /\ []BackedUpBeforeChange
    /\ [][VisitsDestination =>
            LET dest == get_vault_paths[vault_no]
                backup_full_dir == dest \o PathParts(OSM_CONFIG.backup.location)
            IN  /\ NoFormatKnown =>
                    /\ pc' = "exit"
                    /\ status' = "255"
                    /\ ops' = Append(ops, Op("backup_vault", dest))
                    /\ Settings(fs') = Settings(fs)
                    /\ fs' = Put(fs, backup_full_dir, "dir")
                /\ ~NoFormatKnown /\ ~is_dir(fs, dest \o <<".obsidian">>) =>
                    /\ pc' = "done"
                    /\ status' = "0"
                    /\ Settings(fs') = Settings(fs)
                    /\ fs' = Put(fs, backup_full_dir, "dir")]_vars

\* the first destination of an update could not be backed up: it has only
\* got its empty backup directory
C12_Witness ==
    /\ args.command = "update"
    /\ ~args.dry_run
    /\ pc = "exit"
    /\ status = "255"
    /\ ops = <<Op("backup_vault", get_vault_paths[1])>>
    /\ is_dir(fs, get_vault_paths[1] \o PathParts(OSM_CONFIG.backup.location))
    /\ Children(fs, get_vault_paths[1] \o PathParts(OSM_CONFIG.backup.location)) = {}
    /\ is_file(fs, get_vault_paths[1] \o <<".obsidian", "a.json">>)

\* C13: with --dry-run no step of any command creates, changes or deletes a
\* file or directory: every step of the run leaves the filesystem as it was.
C13_DryRunChangesNothing ==
    [][args.dry_run /\ changes' = changes => fs' = fs]_vars

\* what lies in a vault
VaultContents(tree, vault_path) ==
    [q \in {x \in DOMAIN tree : IsPrefix(vault_path, x)} |-> tree[q]]

IteratesOverVaults == args.command \in {"update", "exact-copy-of", "diff-to"}

\* C14: while update, exact-copy-of or diff-to go through the vaults, the
\* source vault is never a destination: no backup, recreate, copy or diff is
\* called with the source vault as its target, and no step of the run
\* changes anything in the source vault, its .obsidian included.
C14_SourceNeverDestination ==
    /\ [](IteratesOverVaults =>
            \A n \in 1..Len(ops) : VaultOf(ops[n].target) # from_vault)
    /\ [][IteratesOverVaults /\ changes' = changes =>
            VaultContents(fs', from_vault) = VaultContents(fs, from_vault)]_vars

\* an exact copy went through all three vaults: both other vaults were
\* recreated, the source in the middle of the list still has its settings
C14_Witness ==
    /\ args.command = "exact-copy-of"
    /\ ~args.dry_run
    /\ pc = "done"
    /\ vault_no > Len(get_vault_paths)
    /\ from_vault = get_vault_paths[2]
    /\ \E n \in 1..Len(ops) :
          ops[n] = Op("recreate_dir", get_vault_paths[1] \o <<".obsidian">>)
    /\ \E n \in 1..Len(ops) :
          ops[n] = Op("recreate_dir", get_vault_paths[3] \o <<".obsidian">>)
    /\ VaultContents(fs, from_vault) = VaultContents(FullHome, from_vault)
    /\ is_file(fs, get_vault_paths[3] \o <<".obsidian", "a.json">>)

\* the regular files at any depth below dir, relative to dir
RelativeFilesBelow(tree, dir) ==
    {relative_to(q, dir) : q \in {x \in DOMAIN tree : IsStrictPrefix(dir, x) /\ tree[x] = "file"}}

\* the files the directives select from the source vault's settings
SelectedFromSource ==
    process_action_list_in(fs, from_vault \o <<".obsidian">>, ACTIONS_TO_TAKE)

\* a run of exact-copy-of that is not a dry run has ended by returning from
\* main; every vault of the list has a settings directory, the directives
\* resolve, and no other program has touched the source
ExactCopyEnded ==
    /\ args.command = "exact-copy-of"
    /\ ~args.dry_run
    /\ pc = "done"
    /\ changes = 0
    /\ \A n \in 1..Len(get_vault_paths) : is_dir(fs, get_vault_paths[n] \o <<".obsidian">>)
    /\ ~process_action_list_in_raises(fs, from_vault \o <<".obsidian">>, ACTIONS_TO_TAKE)

\* C15: after exact-copy-of S, not a dry run, every vault was processed, no
\* exception ended the run part-way, and the regular files below .obsidian
\* of every vault other than S are exactly the files selected from S's
\* .obsidian, those in nested directories included.
C15_ExactCopyOfSelection ==
    ExactCopyEnded =>
        /\ vault_no > Len(get_vault_paths)
        /\ \A n \in 1..Len(stdout) : stdout[n] # TracebackMsg
        /\ \A n \in 1..Len(get_vault_paths) :
              get_vault_paths[n] # from_vault =>
                 RelativeFilesBelow(fs, get_vault_paths[n] \o <<".obsidian">>)
                     = SelectedFromSource

====
